---- MODULE Spec2Model ----
(***************************************************************************)
(* Cross-chain balance aggregation and bridge engine of privacy-treasury-ai *)
(* (CrossChainOrchestrator, CrossChainService, TreasuryAgent), its          *)
(* portfolio scorers (TreasuryAgent, ElizaAgent), the validated HTTP routes *)
(* with their response cache, BatchProcessor, and the dashboard hook of the *)
(* frontend.                                                                *)
(*                                                                          *)
(* Units: USD amounts are whole numbers; bridge fees are kept in            *)
(* thousandths of a USD so that amount * 0.001 stays an integer;            *)
(* percentages and scores are kept in 1/PctScale of a percent or point, the *)
(* quotient being truncated where IEEE division rounds; the money a         *)
(* rebalance planner computes is kept in cents; the cache's clock counts    *)
(* minutes.                                                                 *)
(***************************************************************************)
EXTENDS Integers, Sequences, FiniteSets, TLC

\* ------------------------------------------------------------------ bounds
MaxCalls == 2          \* initiateBridge calls per behaviour
MaxBal == 1            \* a native balance read is 0..MaxBal
MaxAssets == 3         \* length of an asset list handed to the aggregator
MaxValue == 2          \* an asset reading's valueUSD is 0..MaxValue
MaxHoldings == 2       \* length of a portfolio handed to a rebalance planner
MaxTargets == 2        \* entries of a target allocation

\* amounts a bridge request carries (crossChainBridgeSchema: positive)
BridgeAmounts == {1, 1000}

\* --------------------------------------------------------------- constants
\* CrossChainOrchestrator.initializeChains: the chains it registers
OrchestratorChains == {"ethereum", "polygon", "arbitrum", "bsc"}

\* CrossChainService.initialize: the chains it can register (when an RPC URL
\* is set in the environment)
ServiceChains == {"ethereum", "polygon", "arbitrum"}

\* chain names a request may carry (crossChainBridgeSchema accepts any
\* non-empty string): two names both services can register and one that
\* neither registers
RequestChains == {"ethereum", "polygon", "avalanche"}

VARIABLES
  providers,      \* CrossChainService.providers: chains with an RPC URL
  bridgeCalls,    \* log of initiateBridge calls; a returned call carries
                  \* the operation object, whose status the timers mutate
  collectPhase,   \* getMultiChainBalance: "idle", "fetching", "returned"
  fetchPc,        \* position of each chain's task inside Promise.all
  answered,       \* what each chain's source answered (the task's locals)
  balances,       \* the call's `balances` record, one slot per chain
  collectResult,  \* the record the call resolved with
  prevRun,        \* answers and result of the run a replay is compared with
  replayFail,     \* the chain the environment fails while replaying
  snapshot,       \* input and result of the last aggregateBalances call
  analysis,       \* input and result of the last ensurePercentages call
  plan,           \* inputs and result of the last rebalance planner call
  polled,         \* the last getBridgeStatus call and what it answered
  gasPhase,       \* getGasOptimization: "idle", "fetching", "returned", "threw"
  marketGas,      \* MarketDataService.getGasPrices: each chain's task
  onChainGas,     \* CrossChainService.getGasPrices: each provider's task
  scoring,        \* input and result of the last analyzePortfolio call
  served,         \* the last HTTP request the server answered, and its answer
  cache,          \* performance/optimization: the response cache, by URL
  now,            \* Date.now(), in minutes
  queue,          \* BatchProcessor.queue: ids of the operations waiting
  processing,     \* BatchProcessor.processing
  ops,            \* each operation passed to add, and the promise add returned
  inFlight,       \* process() calls between their splice and the end of their await
  timers,         \* pending setTimeout(() => this.process()) callbacks
  runs,           \* useDashboardData: each loadDashboard run's position
  data,           \* useDashboardData: the run whose results `data` holds
  loading,        \* useDashboardData: the `loading` state
  isMounted       \* useDashboardData: isMountedRef.current

bridgeVars == <<bridgeCalls, polled>>
collectVars == <<collectPhase, fetchPc, answered, balances, collectResult,
                 prevRun, replayFail>>
aggVars == <<snapshot, analysis, plan>>
gasVars == <<gasPhase, marketGas, onChainGas>>
coreVars == <<providers, bridgeVars, collectVars, aggVars, gasVars>>
scoreVars == <<scoring>>
apiVars == <<served, cache, now>>
batchVars == <<queue, processing, ops, inFlight, timers>>
dashVars == <<runs, data, loading, isMounted>>
appVars == <<scoreVars, apiVars, batchVars, dashVars>>
vars == <<coreVars, appVars>>

\* ------------------------------------------------- fee and time estimators
\* getNetworkFee, in thousandths of a USD (fees[chain] || 5)
getNetworkFee(chain) ==
  CASE chain = "ethereum" -> 25000
    [] chain = "polygon"  -> 500
    [] chain = "arbitrum" -> 3000
    [] chain = "solana"   -> 1
    [] chain = "bsc"      -> 100
    [] OTHER              -> 5000

\* getGasFee, in thousandths of a USD (fees[chain] || 10)
getGasFee(chain) ==
  CASE chain = "ethereum" -> 50000
    [] chain = "polygon"  -> 2000
    [] chain = "arbitrum" -> 8000
    [] chain = "solana"   -> 5
    [] chain = "bsc"      -> 1000
    [] OTHER              -> 10000

\* mutant: the gas fee is left out of the total
calculateBridgeFees_nogas(fromChain, toChain, amount) ==
  LET baseFee    == amount
      networkFee == getNetworkFee(fromChain)
      gasFee     == getGasFee(fromChain)
  IN [networkFee |-> networkFee, bridgeFee |-> baseFee, gasFee |-> gasFee,
      total |-> networkFee + baseFee]

\* calculateBridgeFees: baseFee = amount * 0.001, i.e. `amount` thousandths
calculateBridgeFees(fromChain, toChain, amount) ==
  LET baseFee    == amount
      networkFee == getNetworkFee(fromChain)
      gasFee     == getGasFee(fromChain)
  IN [networkFee |-> networkFee, bridgeFee |-> baseFee, gasFee |-> gasFee,
      total |-> networkFee + baseFee + gasFee]

\* mutant: the two outcomes of the ethereum test change places
getEstimatedBridgeTime_swapped(fromChain, toChain) ==
  IF fromChain = "ethereum" \/ toChain = "ethereum" THEN 7
  ELSE IF fromChain = "solana" \/ toChain = "solana" THEN 8
  ELSE 15

\* getEstimatedBridgeTime: the upper end of the quoted range, in minutes
getEstimatedBridgeTime(fromChain, toChain) ==
  IF fromChain = "ethereum" \/ toChain = "ethereum" THEN 15
  ELSE IF fromChain = "solana" \/ toChain = "solana" THEN 8
  ELSE 7

\* CrossChainService.estimateBridgeTime, in seconds
estimateBridgeTime(fromChain, toChain) ==
  IF fromChain = "ethereum" \/ toChain = "ethereum" THEN 900
  ELSE IF fromChain = "polygon" \/ toChain = "polygon" THEN 600
  ELSE 450

\* --------------------------------------------------------- bridge lifecycle
\* CrossChainOrchestrator.initiateBridge up to `return operation`: no check
\* of the chain names; the operation is built in status 'pending' and the
\* 2000 ms timer is armed.
OrchOperation(fromChain, toChain, amount) ==
  [impl |-> "orchestrator", fromChain |-> fromChain, toChain |-> toChain,
   amount |-> amount, outcome |-> "returned", returnedStatus |-> "pending",
   status |-> "pending", timer |-> "t2000", hasTxHash |-> FALSE,
   fees |-> calculateBridgeFees(fromChain, toChain, amount),
   estimatedTime |-> getEstimatedBridgeTime(fromChain, toChain)]

OrchInitiateBridge(fromChain, toChain, amount) ==
  /\ Len(bridgeCalls) < MaxCalls
  /\ bridgeCalls' = Append(bridgeCalls, OrchOperation(fromChain, toChain, amount))
  /\ UNCHANGED <<providers, appVars, polled, collectVars, aggVars, gasVars>>

\* mutant: the first timer settles the operation at once
OrchDispatchTimer_skip(i) ==
  /\ bridgeCalls[i].impl = "orchestrator"
  /\ bridgeCalls[i].timer = "t2000"
  /\ bridgeCalls' = [bridgeCalls EXCEPT ![i].status = "completed",
                                        ![i].hasTxHash = TRUE,
                                        ![i].timer = "none"]
  /\ UNCHANGED <<providers, appVars, polled, collectVars, aggVars, gasVars>>

\* the outer setTimeout callback (2000 ms): in-progress, hash set, 30000 ms
\* timer armed
OrchDispatchTimer(i) ==
  /\ bridgeCalls[i].impl = "orchestrator"
  /\ bridgeCalls[i].timer = "t2000"
  /\ bridgeCalls' = [bridgeCalls EXCEPT ![i].status = "in-progress",
                                        ![i].hasTxHash = TRUE,
                                        ![i].timer = "t30000"]
  /\ UNCHANGED <<providers, appVars, polled, collectVars, aggVars, gasVars>>

\* the inner setTimeout callback (30000 ms): completed
OrchSettleTimer(i) ==
  /\ bridgeCalls[i].impl = "orchestrator"
  /\ bridgeCalls[i].timer = "t30000"
  /\ bridgeCalls' = [bridgeCalls EXCEPT ![i].status = "completed",
                                        ![i].timer = "none"]
  /\ UNCHANGED <<providers, appVars, polled, collectVars, aggVars, gasVars>>

\* CrossChainService.initiateBridge: throws unless both chains have a
\* provider; otherwise returns a BridgeTransaction in status 'pending' that
\* nothing in the service ever updates.
SvcTransaction(fromChain, toChain, amount) ==
  IF fromChain \notin providers \/ toChain \notin providers
  THEN [impl |-> "service", fromChain |-> fromChain, toChain |-> toChain,
        amount |-> amount, outcome |-> "threw", returnedStatus |-> "none",
        status |-> "none", timer |-> "none", hasTxHash |-> FALSE,
        fee |-> 0, estimatedTime |-> 0]
  ELSE [impl |-> "service", fromChain |-> fromChain, toChain |-> toChain,
        amount |-> amount, outcome |-> "returned", returnedStatus |-> "pending",
        status |-> "pending", timer |-> "none", hasTxHash |-> TRUE,
        fee |-> amount,
        estimatedTime |-> estimateBridgeTime(fromChain, toChain)]

SvcInitiateBridge(fromChain, toChain, amount) ==
  /\ Len(bridgeCalls) < MaxCalls
  /\ bridgeCalls' = Append(bridgeCalls, SvcTransaction(fromChain, toChain, amount))
  /\ UNCHANGED <<providers, appVars, polled, collectVars, aggVars, gasVars>>

BridgeTimers ==
  \E i \in 1..Len(bridgeCalls) : OrchDispatchTimer(i) \/ OrchSettleTimer(i)

BridgeNext ==
  \/ \E f \in RequestChains, t \in RequestChains, a \in BridgeAmounts :
       OrchInitiateBridge(f, t, a)
  \/ \E f \in RequestChains, t \in RequestChains, a \in BridgeAmounts :
       SvcInitiateBridge(f, t, a)
  \/ \E i \in 1..Len(bridgeCalls) : OrchDispatchTimer(i)
  \/ \E i \in 1..Len(bridgeCalls) : OrchSettleTimer(i)

\* CrossChainService.getBridgeStatus(_txHash), the one status query there is:
\* it ignores the hash and answers 'pending'. The caller passes the hash of
\* operation i (an orchestrator operation has one once it is dispatched).
GetBridgeStatus(i) ==
  /\ bridgeCalls[i].outcome = "returned"
  /\ bridgeCalls[i].hasTxHash
  /\ polled' = [made |-> TRUE, call |-> i, answer |-> "pending"]
  /\ UNCHANGED <<providers, appVars, bridgeCalls, collectVars, aggVars, gasVars>>

BridgePolls == \E i \in 1..Len(bridgeCalls) : GetBridgeStatus(i)

\* bridge requests, their timers, and a caller polling the status query
StatusNext ==
  \/ \E f \in RequestChains, t \in RequestChains : OrchInitiateBridge(f, t, 1)
  \/ \E f \in RequestChains, t \in RequestChains : SvcInitiateBridge(f, t, 1)
  \/ \E i \in 1..Len(bridgeCalls) : OrchDispatchTimer(i)
  \/ \E i \in 1..Len(bridgeCalls) : OrchSettleTimer(i)
  \/ \E i \in 1..Len(bridgeCalls) : GetBridgeStatus(i)

\* ------------------------------------------- CrossChainService: collection
\* DEFAULT_TOKENS
DEFAULT_TOKENS(chain) ==
  CASE chain = "ethereum" -> <<"USDC", "USDT", "DAI">>
    [] chain = "polygon"  -> <<"USDC", "USDT">>
    [] chain = "arbitrum" -> <<"USDC", "ARB">>
    [] OTHER              -> <<>>

\* ChainConfig.nativeCurrency as set by initialize
nativeCurrency(chain) ==
  CASE chain = "ethereum" -> "ETH"
    [] chain = "polygon"  -> "MATIC"
    [] chain = "arbitrum" -> "ETH"
    [] OTHER              -> "NATIVE"

TokenIndexes(chain) == 1..Len(DEFAULT_TOKENS(chain))

UnsetSlot ==
  [set |-> FALSE, hasNative |-> FALSE, nativeSymbol |-> "", nativeAmount |-> 0,
   tokens |-> <<>>, error |-> ""]

\* the catch branch of the per-chain task:
\* { native: null, tokens: [], error: 'Failed to fetch balances' }
FailedSlot ==
  [set |-> TRUE, hasNative |-> FALSE, nativeSymbol |-> "", nativeAmount |-> 0,
   tokens |-> <<>>, error |-> "Failed to fetch balances"]

\* getTokenBalances: one entry per default token, in table order; a token
\* whose balanceOf call fails is reported with amount 0 (inner catch); every
\* other token holds one unit in the modelled world
getTokenBalances(chain, failing) ==
  [k \in TokenIndexes(chain) |->
     [symbol |-> DEFAULT_TOKENS(chain)[k],
      amount |-> IF k \in failing THEN 0 ELSE 1]]

\* the try branch of the per-chain task: { native: {symbol, amount}, tokens }
FetchedSlot(chain, nativeBalance, tokens) ==
  [set |-> TRUE, hasNative |-> TRUE, nativeSymbol |-> nativeCurrency(chain),
   nativeAmount |-> nativeBalance, tokens |-> tokens, error |-> ""]

NoAnswer == [native |-> "none", amount |-> 0, tokens |-> "none", failing |-> {}]
NoPrev == [exists |-> FALSE, answered |-> [c \in ServiceChains |-> NoAnswer],
           result |-> [c \in ServiceChains |-> UnsetSlot]]

Settled(c) == fetchPc[c] \in {"done", "failed"}
AllSettled == \A c \in providers : Settled(c)

\* While replaying, the sources answer as they did in prevRun, except that
\* replayFail's fetch fails.
ReplaysNative(c, kind, amt) ==
  \/ replayFail = "none"
  \/ c = replayFail /\ kind = "err"
  \/ c # replayFail /\ prevRun.answered[c].native = kind
                    /\ prevRun.answered[c].amount = amt
ReplaysTokens(c, failing) ==
  replayFail = "none" \/ prevRun.answered[c].failing = failing

StartTasks ==
  /\ collectPhase' = "fetching"
  /\ fetchPc' = [c \in ServiceChains |-> IF c \in providers THEN "native" ELSE "idle"]
  /\ answered' = [c \in ServiceChains |-> NoAnswer]
  /\ balances' = [c \in ServiceChains |-> UnsetSlot]
  /\ collectResult' = [c \in ServiceChains |-> UnsetSlot]

\* getMultiChainBalance is called: balances = {}, and Promise.all starts one
\* task per entry of providers
CollectStart ==
  /\ collectPhase \in {"idle", "returned"}
  /\ StartTasks
  /\ prevRun' = NoPrev
  /\ replayFail' = "none"
  /\ UNCHANGED <<providers, appVars, bridgeVars, aggVars, gasVars>>

\* the same call made again after a finished run, with the sources answering
\* as before except that chain c's fetch is made to fail
CollectStartReplay(c) ==
  /\ collectPhase = "returned"
  /\ replayFail = "none"
  /\ c \in providers
  /\ StartTasks
  /\ prevRun' = [exists |-> TRUE, answered |-> answered, result |-> collectResult]
  /\ replayFail' = c
  /\ UNCHANGED <<providers, appVars, bridgeVars, aggVars, gasVars>>

\* await provider.getBalance(address) resolves
NativeOk(c, amt) ==
  /\ collectPhase = "fetching" /\ fetchPc[c] = "native"
  /\ ReplaysNative(c, "ok", amt)
  /\ answered' = [answered EXCEPT ![c].native = "ok", ![c].amount = amt]
  /\ fetchPc' = [fetchPc EXCEPT ![c] = "tokens"]
  /\ UNCHANGED <<providers, appVars, bridgeVars, aggVars, gasVars, collectPhase, balances, collectResult,
                 prevRun, replayFail>>

\* mutant: the rejection is not caught, so Promise.all rejects and the call
\* throws
NativeFail_abort(c) ==
  /\ collectPhase = "fetching" /\ fetchPc[c] = "native"
  /\ ReplaysNative(c, "err", 0)
  /\ answered' = [answered EXCEPT ![c].native = "err"]
  /\ fetchPc' = [fetchPc EXCEPT ![c] = "failed"]
  /\ collectPhase' = "rejected"
  /\ UNCHANGED <<providers, appVars, bridgeVars, aggVars, gasVars, balances, collectResult,
                 prevRun, replayFail>>

\* mutant: the catch branch replaces the whole record instead of its slot
NativeFail_wipe(c) ==
  /\ collectPhase = "fetching" /\ fetchPc[c] = "native"
  /\ ReplaysNative(c, "err", 0)
  /\ answered' = [answered EXCEPT ![c].native = "err"]
  /\ balances' = [d \in ServiceChains |-> IF d = c THEN FailedSlot ELSE UnsetSlot]
  /\ fetchPc' = [fetchPc EXCEPT ![c] = "failed"]
  /\ UNCHANGED <<providers, appVars, bridgeVars, aggVars, gasVars, collectPhase, collectResult,
                 prevRun, replayFail>>

\* await provider.getBalance(address) rejects: the catch branch writes the
\* chain's own slot
NativeFail(c) ==
  /\ collectPhase = "fetching" /\ fetchPc[c] = "native"
  /\ ReplaysNative(c, "err", 0)
  /\ answered' = [answered EXCEPT ![c].native = "err"]
  /\ balances' = [balances EXCEPT ![c] = FailedSlot]
  /\ fetchPc' = [fetchPc EXCEPT ![c] = "failed"]
  /\ UNCHANGED <<providers, appVars, bridgeVars, aggVars, gasVars, collectPhase, collectResult,
                 prevRun, replayFail>>

\* the provider never settles the getBalance promise: nothing bounds the await
NativeSilent(c) ==
  /\ collectPhase = "fetching" /\ fetchPc[c] = "native"
  /\ replayFail = "none"
  /\ fetchPc' = [fetchPc EXCEPT ![c] = "hungNative"]
  /\ UNCHANGED <<providers, appVars, bridgeVars, aggVars, gasVars, collectPhase, answered, balances,
                 collectResult, prevRun, replayFail>>

\* await this.getTokenBalances(address, chain) resolves (it never rejects:
\* each balanceOf failure is caught per token), and the slot is written
TokensSettle(c, failing) ==
  /\ collectPhase = "fetching" /\ fetchPc[c] = "tokens"
  /\ ReplaysTokens(c, failing)
  /\ answered' = [answered EXCEPT ![c].tokens = "ok", ![c].failing = failing]
  /\ balances' = [balances EXCEPT ![c] =
       FetchedSlot(c, answered[c].amount, getTokenBalances(c, failing))]
  /\ fetchPc' = [fetchPc EXCEPT ![c] = "done"]
  /\ UNCHANGED <<providers, appVars, bridgeVars, aggVars, gasVars, collectPhase, collectResult,
                 prevRun, replayFail>>

\* a balanceOf call never settles: Promise.all inside getTokenBalances waits
TokensSilent(c) ==
  /\ collectPhase = "fetching" /\ fetchPc[c] = "tokens"
  /\ replayFail = "none"
  /\ fetchPc' = [fetchPc EXCEPT ![c] = "hungTokens"]
  /\ UNCHANGED <<providers, appVars, bridgeVars, aggVars, gasVars, collectPhase, answered, balances,
                 collectResult, prevRun, replayFail>>

\* mutant: the call resolves as soon as one task has settled
CollectReturn_first ==
  /\ collectPhase = "fetching"
  /\ \E c \in providers : Settled(c)
  /\ collectResult' = balances
  /\ collectPhase' = "returned"
  /\ UNCHANGED <<providers, appVars, bridgeVars, aggVars, gasVars, fetchPc, answered, balances,
                 prevRun, replayFail>>

\* Promise.all resolves once every task has resolved: return balances
CollectReturn ==
  /\ collectPhase = "fetching"
  /\ AllSettled
  /\ collectResult' = balances
  /\ collectPhase' = "returned"
  /\ UNCHANGED <<providers, appVars, bridgeVars, aggVars, gasVars, fetchPc, answered, balances,
                 prevRun, replayFail>>

SourceStep(c) ==
  \/ \E amt \in 0..MaxBal : NativeOk(c, amt)
  \/ NativeFail(c)
  \/ NativeSilent(c)
  \/ \E failing \in SUBSET TokenIndexes(c) : TokensSettle(c, failing)
  \/ TokensSilent(c)

CollectNext ==
  \/ CollectStart
  \/ \E c \in ServiceChains : CollectStartReplay(c)
  \/ \E c \in providers, amt \in 0..MaxBal : NativeOk(c, amt)
  \/ \E c \in providers : NativeFail(c)
  \/ \E c \in providers : NativeSilent(c)
  \/ \E c \in providers : \E failing \in SUBSET TokenIndexes(c) :
       TokensSettle(c, failing)
  \/ \E c \in providers : TokensSilent(c)
  \/ CollectReturn

\* ------------------------------------------------------ balance aggregation
\* percentages are held in 1/PctScale of a percent
PctScale == 100 * 100

\* mutant: the quotient is not multiplied by 100
Percent_fraction(num, den) ==
  IF den = 0
  THEN [kind |-> IF num = 0 THEN "NaN" ELSE "Infinity", value |-> 0]
  ELSE [kind |-> "num", value |-> (num * PctScale) \div den]

\* JavaScript (num / den) * 100: NaN for 0/0, Infinity for x/0, otherwise the
\* quotient, truncated to 1/PctScale
Percent(num, den) ==
  IF den = 0
  THEN [kind |-> IF num = 0 THEN "NaN" ELSE "Infinity", value |-> 0]
  ELSE [kind |-> "num",
        value |-> ((num * 100) \div den) * PctScale
                    + (((num * 100) % den) * PctScale) \div den]

Num(v) == [kind |-> "num", value |-> v]

\* CrossChainOrchestrator.chains.size
ChainsSize == Cardinality(OrchestratorChains)

ChainEntry(asset) ==
  [chain |-> asset.chain, amount |-> asset.amount, valueUSD |-> asset.valueUSD]

IndexOfSymbol(agg, key) ==
  IF \E k \in 1..Len(agg) : agg[k].symbol = key
  THEN CHOOSE k \in 1..Len(agg) : agg[k].symbol = key
  ELSE 0

\* mutant: an existing entry's value is overwritten instead of added to
AggStep_overwrite(agg, asset) ==
  LET k == IndexOfSymbol(agg, asset.symbol) IN
  IF k # 0
  THEN [agg EXCEPT ![k].totalAmount = @ + asset.amount,
                   ![k].totalValueUSD = asset.valueUSD,
                   ![k].chains = Append(@, ChainEntry(asset))]
  ELSE Append(agg, [symbol |-> asset.symbol, totalAmount |-> asset.amount,
                    totalValueUSD |-> asset.valueUSD,
                    chains |-> <<ChainEntry(asset)>>])

\* one iteration of assets.forEach in aggregateBalances: the Map is keyed by
\* asset.symbol as given and keeps insertion order
AggStep(agg, asset) ==
  LET k == IndexOfSymbol(agg, asset.symbol) IN
  IF k # 0
  THEN [agg EXCEPT ![k].totalAmount = @ + asset.amount,
                   ![k].totalValueUSD = @ + asset.valueUSD,
                   ![k].chains = Append(@, ChainEntry(asset))]
  ELSE Append(agg, [symbol |-> asset.symbol, totalAmount |-> asset.amount,
                    totalValueUSD |-> asset.valueUSD,
                    chains |-> <<ChainEntry(asset)>>])

RECURSIVE GroupAssets(_, _)
GroupAssets(assets, n) ==
  IF n = 0 THEN <<>> ELSE AggStep(GroupAssets(assets, n - 1), assets[n])

RECURSIVE SumValueUSD(_, _)
SumValueUSD(assets, n) ==
  IF n = 0 THEN 0 ELSE SumValueUSD(assets, n - 1) + assets[n].valueUSD

\* aggregateBalances
aggregateBalances(assets) ==
  LET aggregated    == GroupAssets(assets, Len(assets))
      totalValueUSD == SumValueUSD(assets, Len(assets))
      scored == [k \in 1..Len(aggregated) |->
        [symbol |-> aggregated[k].symbol,
         totalAmount |-> aggregated[k].totalAmount,
         totalValueUSD |-> aggregated[k].totalValueUSD,
         chains |-> aggregated[k].chains,
         diversificationScore |->
           (Len(aggregated[k].chains) * PctScale) \div ChainsSize,
         percentageOfPortfolio |->
           Percent(aggregated[k].totalValueUSD, totalValueUSD)]]
  IN [totalValueUSD |-> totalValueUSD,
      uniqueAssets |-> Len(aggregated),
      chainsUsed |-> Cardinality({assets[i].chain : i \in 1..Len(assets)}),
      aggregatedAssets |-> scored,
      diversificationRating |->
        IF Len(aggregated) > 5 THEN "High"
        ELSE IF Len(aggregated) > 3 THEN "Medium" ELSE "Low"]

\* CrossChainOrchestrator.getMultiChainBalances: the four per-chain readers
\* return fixed readings and cannot fail (amounts in tenths of a unit)
Reading(symbol, amount, valueUSD, chain) ==
  [symbol |-> symbol, amount |-> amount, valueUSD |-> valueUSD, chain |-> chain]

getMultiChainBalances ==
  << Reading("ETH", 52, 8320, "ethereum"), Reading("USDC", 150000, 15000, "ethereum"),
     Reading("MATIC", 80000, 3200, "polygon"), Reading("USDT", 75000, 7500, "polygon"),
     Reading("ARB", 25000, 1250, "arbitrum"), Reading("ETH", 18, 2880, "arbitrum"),
     Reading("SOL", 450, 4500, "solana"), Reading("USDC", 120000, 12000, "solana") >>

\* The two functions below are pure and share no state: a behaviour of
\* AggregateSpec applies one of them once, to any one of the bounded inputs.

\* asset readings a caller may hand to aggregateBalances
AggSymbols == {"ETH", "USDC", "eth"}
AggChains == {"ethereum", "polygon"}
Readings ==
  {Reading(s, v + 1, v, c) : s \in AggSymbols, v \in 0..MaxValue, c \in AggChains}

RECURSIVE SeqsUpTo(_, _)
SeqsUpTo(S, n) ==
  IF n = 0 THEN {<<>>}
  ELSE LET shorter == SeqsUpTo(S, n - 1)
       IN shorter \cup {Append(q, x) : q \in {r \in shorter : Len(r) = n - 1}, x \in S}

\* a call of aggregateBalances
Aggregate(assets) ==
  /\ snapshot' = [called |-> TRUE, input |-> assets, result |-> aggregateBalances(assets)]
  /\ UNCHANGED <<providers, appVars, bridgeVars, collectVars, gasVars, analysis, plan>>

\* TreasuryAgent.getMultiChainBalances: aggregate what the orchestrator read
AgentGetMultiChainBalances ==
  /\ snapshot' = [called |-> TRUE, input |-> getMultiChainBalances,
                  result |-> aggregateBalances(getMultiChainBalances)]
  /\ UNCHANGED <<providers, appVars, bridgeVars, collectVars, gasVars, analysis, plan>>

\* ------------------------------------------- TreasuryAgent.ensurePercentages
\* an Asset without a percentage (percentage === undefined)
NoPct == [kind |-> "undefined", value |-> 0]

\* percentage ?? fallback
OrElse(percentage, fallback) ==
  IF percentage.kind = "undefined" THEN fallback ELSE percentage

ensurePercentages(assets) ==
  LET totalValue == SumValueUSD(assets, Len(assets))
      allPercentagesProvided ==
        \A i \in 1..Len(assets) : assets[i].percentage.kind = "num"
      defaultPercentage ==
        IF Len(assets) > 0 THEN Percent(1, Len(assets)) ELSE Num(0)
  IN IF totalValue > 0
     THEN [i \in 1..Len(assets) |->
             [assets[i] EXCEPT !.percentage =
                OrElse(@, Percent(assets[i].valueUSD, totalValue))]]
     ELSE IF allPercentagesProvided THEN assets
     ELSE [i \in 1..Len(assets) |->
             [assets[i] EXCEPT !.percentage = OrElse(@, defaultPercentage)]]

\* assets analyzePortfolio may receive (assetSchema: valueUSD >= 0,
\* percentage optional in 0..100)
EnsSymbols == {"ETH", "USDC"}
GivenPercentages == {NoPct, Num(0), Num(90 * PctScale)}
AnalysisAssets ==
  {[symbol |-> s, valueUSD |-> v, percentage |-> p] :
     s \in EnsSymbols, v \in 0..MaxValue, p \in GivenPercentages}

\* a call of ensurePercentages (from analyzePortfolio)
EnsurePercentages(assets) ==
  /\ analysis' = [called |-> TRUE, input |-> assets, result |-> ensurePercentages(assets)]
  /\ UNCHANGED <<providers, appVars, bridgeVars, collectVars, gasVars, snapshot, plan>>

NoCallYet == ~snapshot.called /\ ~analysis.called

AggregateNext ==
  \/ NoCallYet /\ \E assets \in SeqsUpTo(Readings, MaxAssets) : Aggregate(assets)
  \/ NoCallYet /\ AgentGetMultiChainBalances
  \/ NoCallYet /\ \E assets \in SeqsUpTo(AnalysisAssets, MaxAssets) :
                    EnsurePercentages(assets)

\* ------------------------------------------------------- gas price sources
\* TreasuryAgent.getGasOptimization awaits Promise.all of
\* MarketDataService.getGasPrices and CrossChainService.getGasPrices; each of
\* those awaits one task per chain.
GasTask(pc, source, value) == [pc |-> pc, source |-> source, value |-> value]
IdleTask == GasTask("idle", "none", "none")
PendingTask == GasTask("pending", "none", "none")

GasSettled(task) == task.pc = "settled"
AllGasSettled ==
  /\ \A c \in ServiceChains : GasSettled(marketGas[c])
  /\ \A c \in providers : GasSettled(onChainGas[c])

\* getGasOptimization is called: both getGasPrices calls start their tasks
GetGasOptimization ==
  /\ gasPhase \in {"idle", "returned"}
  /\ gasPhase' = "fetching"
  /\ marketGas' = [c \in ServiceChains |-> PendingTask]
  /\ onChainGas' = [c \in ServiceChains |->
                      IF c \in providers THEN PendingTask ELSE IdleTask]
  /\ UNCHANGED <<providers, appVars, bridgeVars, collectVars, aggVars>>

\* getEthGasPrice / getPolygonGasPrice / getArbitrumGasPrice: the source
\* answers with data ("ok"), answers without the expected field ("empty":
\* `response.data?.result || {...}`), or the request fails or runs into the
\* 4000 ms axios timeout ("err": the catch branch returns the static prices)
MarketAnswers(c) == IF c = "arbitrum" THEN {"ok", "err"} ELSE {"ok", "empty", "err"}

MarketGasSettle(c, source) ==
  /\ gasPhase = "fetching" /\ marketGas[c].pc = "pending"
  /\ source \in MarketAnswers(c)
  /\ marketGas' = [marketGas EXCEPT ![c] =
       GasTask("settled", source, IF source = "ok" THEN "live" ELSE "fallback")]
  /\ UNCHANGED <<providers, appVars, bridgeVars, collectVars, aggVars, gasPhase, onChainGas>>

\* getArbitrumGasPrice awaits provider.getGasPrice() with no timeout of its
\* own: the provider may never settle the promise
MarketGasSilent(c) ==
  /\ gasPhase = "fetching" /\ marketGas[c].pc = "pending"
  /\ c = "arbitrum"
  /\ marketGas' = [marketGas EXCEPT ![c] = GasTask("hung", "silent", "none")]
  /\ UNCHANGED <<providers, appVars, bridgeVars, collectVars, aggVars, gasPhase, onChainGas>>

\* a task of CrossChainService.getGasPrices: { gasPrice: <gwei> } when
\* provider.getGasPrice() resolves, { gasPrice: null } from the catch branch
OnChainGasSettle(c, source) ==
  /\ gasPhase = "fetching" /\ onChainGas[c].pc = "pending"
  /\ source \in {"ok", "err"}
  /\ onChainGas' = [onChainGas EXCEPT ![c] =
       GasTask("settled", source, IF source = "ok" THEN "live" ELSE "null")]
  /\ UNCHANGED <<providers, appVars, bridgeVars, collectVars, aggVars, gasPhase, marketGas>>

\* provider.getGasPrice() never settles: nothing bounds the await
OnChainGasSilent(c) ==
  /\ gasPhase = "fetching" /\ onChainGas[c].pc = "pending"
  /\ onChainGas' = [onChainGas EXCEPT ![c] = GasTask("hung", "silent", "none")]
  /\ UNCHANGED <<providers, appVars, bridgeVars, collectVars, aggVars, gasPhase, marketGas>>

\* both Promise.all calls resolve; no task rejects, so the catch of
\* getGasOptimization (log and rethrow) is never entered
GasReturn ==
  /\ gasPhase = "fetching"
  /\ AllGasSettled
  /\ gasPhase' = "returned"
  /\ UNCHANGED <<providers, appVars, bridgeVars, collectVars, aggVars, marketGas, onChainGas>>

GasNext ==
  \/ GetGasOptimization
  \/ \E c \in ServiceChains : \E source \in MarketAnswers(c) : MarketGasSettle(c, source)
  \/ \E c \in ServiceChains : MarketGasSilent(c)
  \/ \E c \in providers : \E source \in {"ok", "err"} : OnChainGasSettle(c, source)
  \/ \E c \in providers : OnChainGasSilent(c)
  \/ GasReturn

\* ------------------------------------------------------- rebalance planners
\* Money the planners compute is held in cents: a whole percentage of a
\* whole-USD total is a whole number of cents.
Cents(usd) == usd * 100

\* Math.abs
Abs(x) == IF x < 0 THEN -x ELSE x

\* portfolio.find(a => a.symbol === symbol)?.valueUSD || 0: the first match
FirstValueUSD(portfolio, symbol) ==
  IF \E k \in 1..Len(portfolio) : portfolio[k].symbol = symbol
  THEN portfolio[CHOOSE k \in 1..Len(portfolio) :
                   /\ portfolio[k].symbol = symbol
                   /\ \A h \in 1..(k - 1) : portfolio[h].symbol # symbol].valueUSD
  ELSE 0

RECURSIVE SumAmountUSD(_, _)
SumAmountUSD(changes, n) ==
  IF n = 0 THEN 0 ELSE SumAmountUSD(changes, n - 1) + changes[n].amountUSD

\* the callback of targetAllocation.map in simulateRebalancing
ChangeFor(portfolio, totalValue, target) ==
  LET currentValue == Cents(FirstValueUSD(portfolio, target.symbol))
      targetValue  == totalValue * target.targetPercentage
      difference   == targetValue - currentValue
  IN [symbol |-> target.symbol, currentValue |-> currentValue,
      targetValue |-> targetValue, difference |-> difference,
      amountUSD |-> Abs(difference),
      action |-> IF difference > Cents(10) THEN "BUY"
                 ELSE IF difference < -Cents(10) THEN "SELL" ELSE "HOLD"]

\* TreasuryAgent.simulateRebalancing (tradingFees in 1/20000 of a cent:
\* volume / 2 * 0.003)
simulateRebalancing(currentPortfolio, targetAllocation) ==
  LET totalValue == SumValueUSD(currentPortfolio, Len(currentPortfolio))
      changes == [i \in 1..Len(targetAllocation) |->
                    ChangeFor(currentPortfolio, totalValue, targetAllocation[i])]
      doubleVolume == SumAmountUSD(changes, Len(changes))
  IN [currentTotalValue |-> totalValue,
      proposedChanges |-> changes,
      tradingFees |-> doubleVolume * 30,
      steps |-> Cardinality({i \in 1..Len(changes) : changes[i].action # "HOLD"}),
      recommendation |-> IF doubleVolume > 2 * Cents(1000)
                         THEN "Rebalancing recommended" ELSE "Minor adjustments"]

\* selectOptimalChain's chainScores table (its speed column left out)
chainScores ==
  [ethereum |-> [liquidity |-> 10, fees |-> 3],
   polygon  |-> [liquidity |-> 8,  fees |-> 9],
   arbitrum |-> [liquidity |-> 7,  fees |-> 8],
   solana   |-> [liquidity |-> 6,  fees |-> 10],
   bsc      |-> [liquidity |-> 7,  fees |-> 8]]

\* CrossChainOrchestrator.selectOptimalChain
selectOptimalChain(asset, action) ==
  IF action = "buy" /\ asset = "ETH" THEN "ethereum" ELSE "polygon"

\* one iteration of targetAllocation.forEach in rebalanceAcrossChains: a
\* symbol the aggregate does not hold is passed over, and so is a difference
\* within 1% of the total (estimatedFees in thousandths of a cent)
RebalanceStep(aggregated, operations, target) ==
  LET k == IndexOfSymbol(aggregated.aggregatedAssets, target.symbol) IN
  IF k = 0 THEN operations
  ELSE LET currentValue   == Cents(aggregated.aggregatedAssets[k].totalValueUSD)
           targetValueUSD == target.targetPercentage * aggregated.totalValueUSD
           difference     == targetValueUSD - currentValue
           action         == IF difference > 0 THEN "buy" ELSE "sell"
       IN IF Abs(difference) > aggregated.totalValueUSD
          THEN Append(operations,
                 [asset |-> target.symbol, currentValue |-> currentValue,
                  targetValue |-> targetValueUSD, difference |-> difference,
                  action |-> action, amount |-> Abs(difference),
                  recommendedChain |-> selectOptimalChain(target.symbol, action),
                  estimatedFees |-> Abs(difference) * 3])
          ELSE operations

RECURSIVE RebalanceOperations(_, _, _)
RebalanceOperations(aggregated, targetAllocation, n) ==
  IF n = 0 THEN <<>>
  ELSE RebalanceStep(aggregated,
                     RebalanceOperations(aggregated, targetAllocation, n - 1),
                     targetAllocation[n])

RECURSIVE SumEstimatedFees(_, _)
SumEstimatedFees(operations, n) ==
  IF n = 0 THEN 0
  ELSE SumEstimatedFees(operations, n - 1) + operations[n].estimatedFees

\* CrossChainOrchestrator.rebalanceAcrossChains (targetAllocation: the Map's
\* entries in insertion order)
rebalanceAcrossChains(currentAssets, targetAllocation) ==
  LET aggregated == aggregateBalances(currentAssets)
      operations == RebalanceOperations(aggregated, targetAllocation,
                                        Len(targetAllocation))
  IN [operations |-> operations,
      estimatedTotalFees |-> SumEstimatedFees(operations, Len(operations)),
      wellBalanced |-> Len(operations) = 0,
      potentialSavings |-> Len(operations) * 15]

\* A planner is a pure function: a behaviour of PlanSpec calls one planner
\* once, with any one of the bounded inputs.

\* portfolios and target allocations a caller may hand over (assetSchema:
\* valueUSD >= 0; simulateRebalanceSchema: targetPercentage in 0..100)
PlanSymbols == {"ETH", "USDC"}
PlanValues == {0, 10, 1490, 1510}
PlanHoldings == {[symbol |-> s, valueUSD |-> v] : s \in PlanSymbols, v \in PlanValues}
PlanReadings == {Reading(s, 1, v, "ethereum") : s \in PlanSymbols, v \in PlanValues}
TargetSymbols == {"ETH", "USDC", "DAI"}
TargetPercents == {0, 50, 100}
TargetEntries ==
  {[symbol |-> s, targetPercentage |-> p] : s \in TargetSymbols, p \in TargetPercents}
TargetAllocations ==
  {t \in SeqsUpTo(TargetEntries, MaxTargets) :
     \A i, j \in 1..Len(t) : t[i].symbol = t[j].symbol => i = j}

NoPlan == [called |-> FALSE, planner |-> "none", portfolio |-> <<>>,
           targets |-> <<>>, result |-> <<>>]

\* a call of simulateRebalancing
SimulateRebalancing(currentPortfolio, targetAllocation) ==
  /\ plan' = [called |-> TRUE, planner |-> "simulateRebalancing",
              portfolio |-> currentPortfolio, targets |-> targetAllocation,
              result |-> simulateRebalancing(currentPortfolio, targetAllocation)]
  /\ UNCHANGED <<providers, appVars, bridgeVars, collectVars, gasVars, snapshot, analysis>>

\* a call of rebalanceAcrossChains
RebalanceAcrossChains(currentAssets, targetAllocation) ==
  /\ plan' = [called |-> TRUE, planner |-> "rebalanceAcrossChains",
              portfolio |-> currentAssets, targets |-> targetAllocation,
              result |-> rebalanceAcrossChains(currentAssets, targetAllocation)]
  /\ UNCHANGED <<providers, appVars, bridgeVars, collectVars, gasVars, snapshot, analysis>>

\* TreasuryAgent.getCrossChainRebalancing: plan over what the orchestrator read
GetCrossChainRebalancing(targetAllocation) ==
  /\ plan' = [called |-> TRUE, planner |-> "rebalanceAcrossChains",
              portfolio |-> getMultiChainBalances, targets |-> targetAllocation,
              result |-> rebalanceAcrossChains(getMultiChainBalances,
                                               targetAllocation)]
  /\ UNCHANGED <<providers, appVars, bridgeVars, collectVars, gasVars, snapshot, analysis>>

PlanNext ==
  \/ ~plan.called /\ \E p \in SeqsUpTo(PlanHoldings, MaxHoldings) :
                       \E t \in TargetAllocations : SimulateRebalancing(p, t)
  \/ ~plan.called /\ \E a \in SeqsUpTo(PlanReadings, MaxHoldings) :
                       \E t \in TargetAllocations : RebalanceAcrossChains(a, t)
  \/ ~plan.called /\ \E t \in TargetAllocations : GetCrossChainRebalancing(t)

\* -------------------------------------------------------- portfolio scorers
\* Scores are kept in 1/PctScale of a point, as percentages are.
MaxScored == 4         \* length of a portfolio handed to a scorer

Points(n) == n * PctScale

\* a.percentage || 0 (undefined, NaN and 0 are falsy)
PctOrZero(asset) ==
  IF asset.percentage.kind = "num" THEN asset.percentage.value ELSE 0

\* Math.max(...assets.map(a => a.percentage || 0)) over the first n assets of
\* a list that is not empty (assetsArraySchema: min 1)
RECURSIVE MaxPercentage(_, _)
MaxPercentage(assets, n) ==
  IF n = 1 THEN PctOrZero(assets[1])
  ELSE LET rest == MaxPercentage(assets, n - 1)
       IN IF PctOrZero(assets[n]) > rest THEN PctOrZero(assets[n]) ELSE rest

\* a.symbol.includes('USD'), over the symbols the model hands in
IncludesUSD(symbol) == symbol \in {"USDC", "USDT"}

RECURSIVE StableCoinRatio(_, _)
StableCoinRatio(assets, n) ==
  IF n = 0 THEN 0
  ELSE StableCoinRatio(assets, n - 1)
         + (IF IncludesUSD(assets[n].symbol) THEN PctOrZero(assets[n]) ELSE 0)

\* Math.max(0, Math.min(100, score))
Clamp(score) ==
  IF score < 0 THEN 0 ELSE IF score > Points(100) THEN Points(100) ELSE score

\* TreasuryAgent.calculateRiskScore
calculateRiskScore(assets) ==
  LET maxPercentage == MaxPercentage(assets, Len(assets))
      concentrationRisk ==
        IF maxPercentage > Points(50) THEN 40
        ELSE IF maxPercentage > Points(30) THEN 20 ELSE 0
      diversificationBonus ==
        IF Len(assets) > 5 THEN -10 ELSE IF Len(assets) > 3 THEN -5 ELSE 0
      stabilityBonus ==
        IF StableCoinRatio(assets, Len(assets)) > Points(20) THEN -15 ELSE 0
      score == 50 + concentrationRisk + diversificationBonus + stabilityBonus
  IN Clamp(Points(score))

\* TreasuryAgent.calculateDiversificationScore
calculateDiversificationScore(assets) ==
  LET assetCount == Len(assets)
      balance == Points(100) - MaxPercentage(assets, Len(assets))
      countBonus == IF assetCount * 10 < 40 THEN assetCount * 10 ELSE 40
      balanceBonus == IF balance < Points(40) THEN balance ELSE Points(40)
      baseScore == 20
  IN Clamp(Points(baseScore) + Points(countBonus) + balanceBonus)

\* assets.reduce((max, asset) => (asset.percentage || 0) > (max.percentage || 0)
\*   ? asset : max): the first asset that holds the largest percentage
RECURSIVE MaxAsset(_, _)
MaxAsset(assets, n) ==
  IF n = 1 THEN assets[1]
  ELSE LET max == MaxAsset(assets, n - 1)
       IN IF PctOrZero(assets[n]) > PctOrZero(max) THEN assets[n] ELSE max

\* assets.filter(a => a.percentage && a.percentage < 5): a percentage of 0 is
\* falsy and does not pass the filter
smallAllocations(assets) ==
  {i \in 1..Len(assets) : PctOrZero(assets[i]) # 0 /\ PctOrZero(assets[i]) < Points(5)}

\* TreasuryAgent.identifyAlerts: the kinds of alert it pushes
identifyAlerts(assets) ==
  LET maxAsset == MaxAsset(assets, Len(assets))
  IN (IF PctOrZero(maxAsset) # 0 /\ PctOrZero(maxAsset) > Points(70)
      THEN {"critical"} ELSE {})
     \cup (IF Cardinality(smallAllocations(assets)) > 3
           THEN {"small-positions"} ELSE {})

\* ---- ElizaAgent's scorers, over valueUSD
RECURSIVE ElizaTotal(_, _)
\* assets.reduce((sum, asset) => sum + (asset.valueUSD || 0), 0)
ElizaTotal(assets, n) ==
  IF n = 0 THEN 0 ELSE ElizaTotal(assets, n - 1) + assets[n].valueUSD

\* Number(x.toFixed(2)) of the quotient num / den, den > 0, in hundredths:
\* the nearest hundredth, a half going away from zero
ToFixed2(num, den) ==
  IF num >= 0 THEN (2 * num + den) \div (2 * den)
  ELSE -((2 * (-num) + den) \div (2 * den))

Sign(x) == IF x < 0 THEN -1 ELSE 1

ElizaStableSymbols == {"USDC", "USDT", "DAI", "USDS", "PYUSD"}

RECURSIVE ElizaStable(_, _)
ElizaStable(assets, n) ==
  IF n = 0 THEN 0
  ELSE ElizaStable(assets, n - 1)
         + (IF assets[n].symbol \in ElizaStableSymbols THEN assets[n].valueUSD ELSE 0)

\* ElizaAgent.calculateStablePercentage, in hundredths of a percent
calculateStablePercentage(assets) ==
  LET total == ElizaTotal(assets, Len(assets))
  IN IF total = 0 THEN 0
     ELSE ToFixed2(ElizaStable(assets, Len(assets)) * Sign(total) * 100 * 100,
                   Abs(total))

\* Math.max(...assets.map(asset => valueUSD / total)), as a numerator over
\* |total|
RECURSIVE MaxShare(_, _, _)
MaxShare(assets, n, sign) ==
  IF n = 1 THEN assets[1].valueUSD * sign
  ELSE LET rest == MaxShare(assets, n - 1, sign)
       IN IF assets[n].valueUSD * sign > rest THEN assets[n].valueUSD * sign ELSE rest

\* ElizaAgent.calculateRiskScore: 50 + concentration * 40 - stableRatio * 20,
\* clamped to 0..100, then toFixed(2)
elizaRiskScore(assets) ==
  LET total == ElizaTotal(assets, Len(assets))
      den == 5 * Abs(total)
      num == 25000 * Abs(total)
               + 20000 * MaxShare(assets, Len(assets), Sign(total))
               - calculateStablePercentage(assets) * Abs(total)
      clamped == IF num < 0 THEN 0 ELSE IF num > 10000 * den THEN 10000 * den ELSE num
  IN IF total = 0 THEN 0 ELSE ToFixed2(clamped, den) * (PctScale \div 100)

RECURSIVE SumSquares(_, _)
SumSquares(assets, n) ==
  IF n = 0 THEN 0
  ELSE SumSquares(assets, n - 1) + assets[n].valueUSD * assets[n].valueUSD

\* ElizaAgent.calculateDiversificationScore: (1 - herfindahl) * 100, toFixed(2);
\* the result is not clamped
elizaDiversificationScore(assets) ==
  LET total == ElizaTotal(assets, Len(assets))
  IN IF total = 0 THEN 0
     ELSE ToFixed2((total * total - SumSquares(assets, Len(assets))) * 100 * 100,
                   total * total) * (PctScale \div 100)

\* ElizaAgent.identifyAlerts: the kinds of alert it pushes
elizaIdentifyAlerts(assets) ==
  LET total == ElizaTotal(assets, Len(assets))
  IN IF total = 0 THEN {"zero-value"}
     ELSE (IF \E i \in 1..Len(assets) :
                 100 * assets[i].valueUSD * Sign(total) > 55 * Abs(total)
           THEN {"concentration"} ELSE {})
          \cup (IF calculateStablePercentage(assets) < 10 * 100
                THEN {"low-stable"} ELSE {})

\* assets TreasuryAgent.analyzePortfolio may receive (assetSchema)
ScoredHoldings ==
  {<<0, NoPct>>, <<1, NoPct>>, <<1, Num(0)>>, <<1, Num(Points(3))>>,
   <<3, Num(Points(90))>>}
ScoredAssets ==
  {[symbol |-> s, valueUSD |-> h[1], percentage |-> h[2]] :
     s \in EnsSymbols, h \in ScoredHoldings}

\* assets ElizaAgent.analyzePortfolio may receive: getAIRecommendations hands
\* it what aiRecommendationsSchema let through (valueUSD: z.number().optional())
ElizaValues == {-1, 0, 1, 3}
ElizaAssets ==
  {[symbol |-> s, valueUSD |-> v, percentage |-> NoPct] :
     s \in EnsSymbols, v \in ElizaValues}

NoScore == [called |-> FALSE, scorer |-> "none", assets |-> <<>>,
            riskScore |-> 0, diversificationScore |-> 0, alerts |-> {}]

\* TreasuryAgent.analyzePortfolio: ensurePercentages, then the scorers
AnalyzePortfolio(assets) ==
  LET assetsWithPercentage == ensurePercentages(assets)
  IN /\ scoring' = [called |-> TRUE, scorer |-> "TreasuryAgent",
                   assets |-> assetsWithPercentage,
                   riskScore |-> calculateRiskScore(assetsWithPercentage),
                   diversificationScore |->
                     calculateDiversificationScore(assetsWithPercentage),
                   alerts |-> identifyAlerts(assetsWithPercentage)]
     /\ UNCHANGED <<coreVars, apiVars, batchVars, dashVars>>

\* ElizaAgent.analyzePortfolio
ElizaAnalyzePortfolio(assets) ==
  /\ scoring' = [called |-> TRUE, scorer |-> "ElizaAgent", assets |-> assets,
                riskScore |-> elizaRiskScore(assets),
                diversificationScore |-> elizaDiversificationScore(assets),
                alerts |-> elizaIdentifyAlerts(assets)]
  /\ UNCHANGED <<coreVars, apiVars, batchVars, dashVars>>

NonEmpty(lists) == {l \in lists : Len(l) > 0}

ScoreNext ==
  \/ ~scoring.called /\ \E assets \in NonEmpty(SeqsUpTo(ScoredAssets, MaxScored)) :
                         AnalyzePortfolio(assets)
  \/ ~scoring.called /\ \E assets \in NonEmpty(SeqsUpTo(ElizaAssets, MaxScored)) :
                         ElizaAnalyzePortfolio(assets)

\* ------------------------------------------------------------------ HTTP API
\* The validated routes of index.ts and the response cache some of them sit
\* behind. Time is kept in minutes.
MaxBridgeRequests == 2 \* bridge requests that pass validation, per behaviour
MaxNow == 11           \* the clock runs from 0 to MaxNow

\* a field of a JSON body
Str(s) == [kind |-> "string", value |-> s]
Undefined == [kind |-> "undefined", value |-> ""]

\* z.string().min(1)
NonEmptyString(field) == field.kind = "string" /\ field.value # ""

\* z.number().positive()
PositiveNumber(field) == field.kind = "num" /\ field.value > 0

\* crossChainBridgeSchema.safeParse(req.body).success
crossChainBridgeSchema(body) ==
  /\ NonEmptyString(body.fromChain)
  /\ NonEmptyString(body.toChain)
  /\ NonEmptyString(body.asset)
  /\ PositiveNumber(body.amount)
  /\ NonEmptyString(body.recipientAddress)

\* envelope fields every answer carries
CommonFields == {"success", "timestamp", "version"}

\* the JSON body sendSuccess sends
SuccessBody(payload) ==
  [success |-> TRUE, fields |-> CommonFields \cup {"data"}, data |-> payload,
   error |-> "", timestamp |-> now]

\* mutant: the error body carries success: true
ErrorBody_success(isError, message, isDevelopment) ==
  [success |-> TRUE,
   fields |-> CommonFields \cup {"error"}
                \cup (IF isDevelopment /\ isError THEN {"details"} ELSE {}),
   data |-> "", error |-> message, timestamp |-> now]

\* the JSON body sendError sends: details only in development, and only for
\* an Error
ErrorBody(isError, message, isDevelopment) ==
  [success |-> FALSE,
   fields |-> CommonFields \cup {"error"}
                \cup (IF isDevelopment /\ isError THEN {"details"} ELSE {}),
   data |-> "", error |-> message, timestamp |-> now]

\* the JSON body sendValidationError sends
ValidationBody ==
  [success |-> FALSE, fields |-> CommonFields \cup {"error", "details"},
   data |-> "", error |-> "Invalid request payload", timestamp |-> now]

sendSuccess(payload) == [status |-> 200, body |-> SuccessBody(payload)]
sendError(isError, message, isDevelopment) ==
  [status |-> 500, body |-> ErrorBody(isError, message, isDevelopment)]
sendValidationError == [status |-> 400, body |-> ValidationBody]

NoBody == [success |-> FALSE, fields |-> {}, data |-> "", error |-> "",
           timestamp |-> 0]
NoRequest == [route |-> "none", valid |-> FALSE, invoked |-> FALSE,
              fromCache |-> FALSE, outcome |-> "none",
              response |-> [status |-> 0, body |-> NoBody]]

\* bodies a client may post to /api/cross-chain-bridge
BridgeBodies ==
  {[fromChain |-> f, toChain |-> t, asset |-> Str("USDC"), amount |-> a,
    recipientAddress |-> r] :
     f \in {Str("ethereum"), Str("avalanche"), Str("")},
     t \in {Str("polygon"), Undefined},
     a \in {Num(1), Num(0)},
     r \in {Str("0xabc"), Undefined}}

\* mutant: the handler goes on to the agent whatever safeParse answered
BridgeRequest_unchecked(impl, body, isDevelopment) ==
  /\ Len(bridgeCalls) < MaxBridgeRequests
  /\ LET call == IF impl = "orchestrator"
                 THEN OrchOperation(body.fromChain.value, body.toChain.value,
                                    body.amount.value)
                 ELSE SvcTransaction(body.fromChain.value, body.toChain.value,
                                     body.amount.value)
     IN /\ bridgeCalls' = Append(bridgeCalls, call)
        /\ served' = [route |-> "/api/cross-chain-bridge",
                      valid |-> crossChainBridgeSchema(body), invoked |-> TRUE,
                      fromCache |-> FALSE, outcome |-> call.outcome,
                      response |->
                        IF call.outcome = "returned"
                        THEN sendSuccess("bridgeOperation")
                        ELSE sendError(TRUE, "Cross-chain bridge failed",
                                       isDevelopment)]
  /\ UNCHANGED <<providers, polled, collectVars, aggVars, gasVars, scoreVars,
                 batchVars, dashVars, cache, now>>

\* app.post('/api/cross-chain-bridge'): safeParse, then
\* treasuryAgent.initiateCrossChainBridge (the orchestrator's initiateBridge in
\* TreasuryAgent.ts, the service's in part_010), then sendSuccess, or
\* sendError from the catch. isDevelopment is NODE_ENV !== 'production'.
BridgeRequest(impl, body, isDevelopment) ==
  IF ~crossChainBridgeSchema(body)
  THEN /\ served' = [route |-> "/api/cross-chain-bridge", valid |-> FALSE,
                     invoked |-> FALSE, fromCache |-> FALSE,
                     outcome |-> "rejected", response |-> sendValidationError]
       /\ UNCHANGED <<coreVars, scoreVars, batchVars, dashVars, cache, now>>
  ELSE /\ Len(bridgeCalls) < MaxBridgeRequests
       /\ LET call == IF impl = "orchestrator"
                      THEN OrchOperation(body.fromChain.value, body.toChain.value,
                                         body.amount.value)
                      ELSE SvcTransaction(body.fromChain.value, body.toChain.value,
                                          body.amount.value)
          IN /\ bridgeCalls' = Append(bridgeCalls, call)
             /\ served' = [route |-> "/api/cross-chain-bridge", valid |-> TRUE,
                           invoked |-> TRUE, fromCache |-> FALSE,
                           outcome |-> call.outcome,
                           response |->
                             IF call.outcome = "returned"
                             THEN sendSuccess("bridgeOperation")
                             ELSE sendError(TRUE, "Cross-chain bridge failed",
                                            isDevelopment)]
       /\ UNCHANGED <<providers, polled, collectVars, aggVars, gasVars,
                      scoreVars, batchVars, dashVars, cache, now>>

\* ---- the response cache
\* the GET routes the model requests: one behind shortCache, one behind
\* mediumCache
CachedUrls == {"/api/gas-optimization", "/api/correlation-analysis"}

\* cacheMiddleware(120000) and cacheMiddleware(300000), in minutes
shortCache == 2
mediumCache == 5
TtlOf(url) == IF url = "/api/gas-optimization" THEN shortCache ELSE mediumCache

\* setInterval(..., 600000): the cleanup job's period, in minutes
CleanupInterval == 10

\* what the route's agent operation answers (neither operation throws)
DataOf(url) ==
  IF url = "/api/gas-optimization" THEN "gasOptimization" ELSE "correlationMatrix"

NoEntry == [present |-> FALSE, data |-> NoBody, timestamp |-> 0, ttl |-> 0]

\* cached && (Date.now() - cached.timestamp) < cached.ttl
CacheHit(url) ==
  cache[url].present /\ now - cache[url].timestamp < cache[url].ttl

\* mutant: an entry is served whatever its age
CachedRequest_stale(url) ==
  /\ IF cache[url].present
     THEN /\ served' = [route |-> url, valid |-> TRUE, invoked |-> FALSE,
                        fromCache |-> TRUE, outcome |-> "cached",
                        response |-> [status |-> 200, body |-> cache[url].data]]
          /\ UNCHANGED cache
     ELSE /\ served' = [route |-> url, valid |-> TRUE, invoked |-> TRUE,
                        fromCache |-> FALSE, outcome |-> "returned",
                        response |-> sendSuccess(DataOf(url))]
          /\ cache' = [cache EXCEPT ![url] =
                         [present |-> TRUE, data |-> SuccessBody(DataOf(url)),
                          timestamp |-> now, ttl |-> TtlOf(url)]]
  /\ UNCHANGED <<coreVars, scoreVars, batchVars, dashVars, now>>

\* a GET of a cached route: cacheMiddleware answers res.json(cached.data) on a
\* hit; otherwise it wraps res.json and the handler runs, whose sendSuccess
\* stores the body under the URL and sends it
CachedRequest(url) ==
  /\ IF CacheHit(url)
     THEN /\ served' = [route |-> url, valid |-> TRUE, invoked |-> FALSE,
                        fromCache |-> TRUE, outcome |-> "cached",
                        response |-> [status |-> 200, body |-> cache[url].data]]
          /\ UNCHANGED cache
     ELSE /\ served' = [route |-> url, valid |-> TRUE, invoked |-> TRUE,
                        fromCache |-> FALSE, outcome |-> "returned",
                        response |-> sendSuccess(DataOf(url))]
          /\ cache' = [cache EXCEPT ![url] =
                         [present |-> TRUE, data |-> SuccessBody(DataOf(url)),
                          timestamp |-> now, ttl |-> TtlOf(url)]]
  /\ UNCHANGED <<coreVars, scoreVars, batchVars, dashVars, now>>

\* a minute passes in which the cleanup job is not due
Tick ==
  /\ now < MaxNow
  /\ (now + 1) % CleanupInterval # 0
  /\ now' = now + 1
  /\ UNCHANGED <<coreVars, scoreVars, batchVars, dashVars, served, cache>>

\* the minute passes that makes the cleanup job due, and it runs: every
\* entry with (now - cached.timestamp) > cached.ttl is deleted
CacheCleanup ==
  /\ now < MaxNow
  /\ (now + 1) % CleanupInterval = 0
  /\ now' = now + 1
  /\ cache' = [url \in CachedUrls |->
                 IF cache[url].present /\ now' - cache[url].timestamp > cache[url].ttl
                 THEN NoEntry ELSE cache[url]]
  /\ UNCHANGED <<coreVars, scoreVars, batchVars, dashVars, served>>

ApiNext ==
  \/ \E impl \in {"orchestrator", "service"}, body \in BridgeBodies,
        isDevelopment \in BOOLEAN : BridgeRequest(impl, body, isDevelopment)
  \/ \E i \in 1..Len(bridgeCalls) : OrchDispatchTimer(i)
  \/ \E i \in 1..Len(bridgeCalls) : OrchSettleTimer(i)
  \/ \E url \in CachedUrls : CachedRequest(url)

CacheNext ==
  \/ \E url \in CachedUrls : CachedRequest(url)
  \/ Tick
  \/ CacheCleanup

\* ----------------------------------------------------------- BatchProcessor
MaxOps == 7            \* operations passed to add, per behaviour

OpIds == 1..MaxOps

\* private batchSize = 5
batchSize == 5

\* an operation not yet passed to add
NewOp == [state |-> "new", outcome |-> "none", promise |-> "none",
          starts |-> 0, by |-> "none"]

Min(a, b) == IF a < b THEN a ELSE b

\* mutant: the batch is the whole queue
Batch_whole(q) == SubSeq(q, 1, Len(q))

\* this.queue.splice(0, this.batchSize): the batch
Batch(q) == SubSeq(q, 1, Min(Len(q), batchSize))

InSeq(x, q) == \E k \in 1..Len(q) : q[k] = x

\* process(), called with the queue q and the operations o, by an add or by
\* the timer: nothing if a batch is being processed or q is empty; otherwise
\* processing is set, the batch is spliced off and each of its operations is
\* called
Process(q, o, by) ==
  IF processing \/ Len(q) = 0
  THEN /\ queue' = q
       /\ ops' = o
       /\ UNCHANGED <<processing, inFlight>>
  ELSE /\ processing' = TRUE
       /\ inFlight' = inFlight + 1
       /\ queue' = SubSeq(q, Len(Batch(q)) + 1, Len(q))
       /\ ops' = [id \in OpIds |->
                    IF InSeq(id, Batch(q))
                    THEN [o[id] EXCEPT !.state = "running", !.starts = @ + 1,
                                       !.by = by]
                    ELSE o[id]]

\* add(id, operation): the next operation is pushed and process() is called
Add(id) ==
  /\ ops[id].state = "new"
  /\ \A other \in OpIds : other < id => ops[other].state # "new"
  /\ Process(Append(queue, id),
             [ops EXCEPT ![id].state = "queued", ![id].promise = "pending"],
             "add")
  /\ UNCHANGED <<coreVars, scoreVars, apiVars, dashVars, timers>>

\* the operations the caller passes in: every second one throws
OutcomeOf(id) == IF id % 2 = 0 THEN "err" ELSE "ok"

\* a running operation settles, and the wrapper passes its outcome to the
\* resolve or the reject of the promise add returned
Settle(id) ==
  /\ ops[id].state = "running"
  /\ ops' = [ops EXCEPT ![id].state = "done", ![id].outcome = OutcomeOf(id),
                        ![id].promise = IF OutcomeOf(id) = "ok" THEN "resolved"
                                        ELSE "rejected"]
  /\ UNCHANGED <<coreVars, scoreVars, apiVars, dashVars, queue, processing, inFlight, timers>>

\* mutant: no timer is armed for what is left in the queue
BatchDone_stop ==
  /\ inFlight > 0
  /\ \A id \in OpIds : ops[id].state # "running"
  /\ processing' = FALSE
  /\ inFlight' = inFlight - 1
  /\ UNCHANGED <<coreVars, scoreVars, apiVars, dashVars, queue, ops, timers>>

\* Promise.allSettled resolves: processing is cleared and, if operations are
\* waiting, process() is scheduled 100 ms later
BatchDone ==
  /\ inFlight > 0
  /\ \A id \in OpIds : ops[id].state # "running"
  /\ processing' = FALSE
  /\ inFlight' = inFlight - 1
  /\ timers' = IF Len(queue) > 0 THEN timers + 1 ELSE timers
  /\ UNCHANGED <<coreVars, scoreVars, apiVars, dashVars, queue, ops>>

\* a scheduled process() runs
TimerFire ==
  /\ timers > 0
  /\ timers' = timers - 1
  /\ Process(queue, ops, "timer")
  /\ UNCHANGED <<coreVars, scoreVars, apiVars, dashVars>>

BatchNext ==
  \/ \E id \in OpIds : Add(id)
  \/ \E id \in OpIds : Settle(id)
  \/ BatchDone
  \/ TimerFire

\* --------------------------------------------------- dashboard (frontend)
MaxRuns == 4           \* loadDashboard runs, per behaviour

RunIds == 1..MaxRuns

\* useState(INITIAL_STATE): no run's results
INITIAL_STATE == 0

\* loadDashboard is called (by the mount effect, the 60 s interval or
\* refresh) while the hook is mounted: loading is set and the thirteen
\* requests are sent. The results a run receives are named by the run.
LoadDashboard(r) ==
  /\ isMounted
  /\ runs[r] = "idle"
  /\ \A other \in RunIds : other < r => runs[other] # "idle"
  /\ runs' = [runs EXCEPT ![r] = "fetching"]
  /\ loading' = TRUE
  /\ UNCHANGED <<coreVars, scoreVars, apiVars, batchVars, data, isMounted>>

\* a run's Promise.allSettled resolves: if the hook is still mounted, setData
\* with the run's results, and setLoading(false)
RunSettles(r) ==
  /\ runs[r] = "fetching"
  /\ runs' = [runs EXCEPT ![r] = "done"]
  /\ data' = IF isMounted THEN r ELSE data
  /\ loading' = IF isMounted THEN FALSE ELSE loading
  /\ UNCHANGED <<coreVars, scoreVars, apiVars, batchVars, isMounted>>

\* the hook's cleanup: isMountedRef.current = false (and the interval is
\* cleared)
Unmount ==
  /\ isMounted
  /\ isMounted' = FALSE
  /\ UNCHANGED <<coreVars, scoreVars, apiVars, batchVars, runs, data, loading>>

DashNext ==
  \/ \E r \in RunIds : LoadDashboard(r)
  \/ \E r \in RunIds : RunSettles(r)
  \/ Unmount

\* ------------------------------------------------------------ specifications
Init ==
  /\ providers \in SUBSET ServiceChains
  /\ bridgeCalls = <<>>
  /\ collectPhase = "idle"
  /\ fetchPc = [c \in ServiceChains |-> "idle"]
  /\ answered = [c \in ServiceChains |-> NoAnswer]
  /\ balances = [c \in ServiceChains |-> UnsetSlot]
  /\ collectResult = [c \in ServiceChains |-> UnsetSlot]
  /\ prevRun = NoPrev
  /\ replayFail = "none"
  /\ snapshot = [called |-> FALSE, input |-> <<>>, result |-> aggregateBalances(<<>>)]
  /\ analysis = [called |-> FALSE, input |-> <<>>, result |-> <<>>]
  /\ plan = NoPlan
  /\ polled = [made |-> FALSE, call |-> 0, answer |-> "none"]
  /\ gasPhase = "idle"
  /\ marketGas = [c \in ServiceChains |-> IdleTask]
  /\ onChainGas = [c \in ServiceChains |-> IdleTask]
  /\ scoring = NoScore
  /\ served = NoRequest
  /\ cache = [url \in CachedUrls |-> NoEntry]
  /\ now = 0
  /\ queue = <<>>
  /\ processing = FALSE
  /\ ops = [id \in OpIds |-> NewOp]
  /\ inFlight = 0
  /\ timers = 0
  /\ runs = [r \in RunIds |-> "idle"]
  /\ data = INITIAL_STATE
  /\ loading = TRUE
  /\ isMounted = TRUE

\* Node fires every armed timer: weak fairness on the timer callbacks
BridgeSpec == Init /\ [][BridgeNext]_vars /\ WF_vars(BridgeTimers)

\* the timers fire, and the caller keeps polling
StatusSpec ==
  Init /\ [][StatusNext]_vars /\ WF_vars(BridgeTimers) /\ WF_vars(BridgePolls)

\* every pending source call is decided (answer, error, or lasting silence),
\* and Promise.all resolves once all tasks have
CollectSpec ==
  /\ Init /\ [][CollectNext]_vars
  /\ \A c \in ServiceChains : WF_vars(SourceStep(c))
  /\ WF_vars(CollectReturn)

\* the aggregator and ensurePercentages applied to every bounded input (neither
\* reads the service's providers: all three RPC URLs are taken as configured)
AggregateInit == Init /\ providers = ServiceChains

AggregateSpec == AggregateInit /\ [][AggregateNext]_vars

\* a gas optimization request at a time, its sources answering in any order
GasSpec == Init /\ [][GasNext]_vars

\* the planners applied to every bounded input
PlanSpec == AggregateInit /\ [][PlanNext]_vars

\* the scorers applied to every bounded portfolio
ScoreSpec == AggregateInit /\ [][ScoreNext]_vars

\* requests to the bridge route and to the cached routes, in any order, within
\* a minute (the clock does not move; the bridge timers do fire)
ApiSpec == AggregateInit /\ [][ApiNext]_vars

\* requests to the cached routes while the clock runs and the cleanup job fires
CacheSpec == AggregateInit /\ [][CacheNext]_vars

\* operations added at any moment; every started operation settles (the
\* proviso of the claim about it), Promise.allSettled resolves and armed
\* timers fire
BatchSpec ==
  /\ AggregateInit /\ [][BatchNext]_vars
  /\ \A id \in OpIds : WF_vars(Settle(id))
  /\ WF_vars(BatchDone)
  /\ WF_vars(TimerFire)

\* loadDashboard runs that may overlap, each answered at any later moment
DashSpec == AggregateInit /\ [][DashNext]_vars

\* ------------------------------------------------------------------ claims
Calls == 1..Len(bridgeCalls)

\* the chains an implementation has registered
Registered(impl) == IF impl = "orchestrator" THEN OrchestratorChains ELSE providers

StatusOf(i) == IF i \in Calls THEN bridgeCalls[i].status ELSE "absent"
ReturnedCall(i) == i \in Calls /\ bridgeCalls[i].outcome = "returned"

LifecycleSteps ==
  {<<"pending", "in-progress">>, <<"in-progress", "completed">>,
   <<"in-progress", "failed">>}

\* C1: a bridge operation's status changes only along pending -> in-progress
\* -> (completed | failed): no step brings an operation back to pending or
\* takes it from pending straight to a terminal status.
C1_LifecycleMonotonic ==
  [][\A i \in Calls :
       bridgeCalls'[i].status # bridgeCalls[i].status =>
         <<bridgeCalls[i].status, bridgeCalls'[i].status>> \in LifecycleSteps]_vars

C1_Witness ==
  \E i \in Calls : bridgeCalls[i].impl = "orchestrator"
                    /\ bridgeCalls[i].status = "completed"

\* C2: every initiateBridge call that returns, returns the operation in
\* status pending; the operation then eventually becomes in-progress and
\* after that eventually completed or failed.
C2_EventuallySettles ==
  \A i \in 1..MaxCalls :
    /\ [](ReturnedCall(i) => bridgeCalls[i].returnedStatus = "pending")
    /\ (ReturnedCall(i) /\ StatusOf(i) = "pending") ~> (StatusOf(i) = "in-progress")
    /\ (StatusOf(i) = "in-progress") ~> (StatusOf(i) \in {"completed", "failed"})

C2_Witness ==
  \E i \in Calls : bridgeCalls[i].impl = "service" /\ StatusOf(i) = "pending"

\* C3: initiateBridge throws exactly when fromChain or toChain is not
\* registered with the implementation that serves the call.
C3_ThrowsIffNotConfigured ==
  \A i \in Calls :
    bridgeCalls[i].outcome = "threw" <=>
      (\/ bridgeCalls[i].fromChain \notin Registered(bridgeCalls[i].impl)
       \/ bridgeCalls[i].toChain \notin Registered(bridgeCalls[i].impl))

C3_Witness ==
  \E i \in Calls : bridgeCalls[i].impl = "service" /\ bridgeCalls[i].outcome = "threw"

C5_OtherChainsUnchanged ==
  (collectPhase = "returned" /\ prevRun.exists) =>
    \A d \in providers \ {replayFail} : collectResult[d] = prevRun.result[d]

C5_Witness ==
  /\ collectPhase = "returned" /\ prevRun.exists
  /\ prevRun.answered[replayFail].native = "ok"
  /\ collectResult[replayFail].error # ""
  /\ \E d \in providers \ {replayFail} : collectResult[d].hasNative

\* C6: no result is emitted while some chain's fetch is unsettled, and once
\* every fetch has settled the call returns its result.
C6_SettleAll ==
  /\ [](collectPhase = "returned" => AllSettled)
  /\ [](collectPhase = "fetching" => \A c \in ServiceChains : ~collectResult[c].set)
  /\ (collectPhase = "fetching" /\ AllSettled) ~> (collectPhase = "returned")

C6_Witness ==
  /\ collectPhase = "returned"
  /\ Cardinality(providers) >= 2
  /\ \E c \in providers : fetchPc[c] = "failed"
  /\ \E d \in providers : fetchPc[d] = "done"

\* C7: every call of getMultiChainBalance returns, whatever the sources do.
C7_AlwaysReturns ==
  (collectPhase = "fetching") ~> (collectPhase = "returned")

C7_Witness ==
  collectPhase = "fetching" /\ \E c \in providers : fetchPc[c] = "hungNative"

\* ---- aggregation claims
RECURSIVE SumOver(_, _, _)
SumOver(Get(_), seq, n) ==
  IF n = 0 THEN 0 ELSE SumOver(Get, seq, n - 1) + Get(seq[n])

TotalOf(a) == a.totalValueUSD
PortfolioPct(a) == a.percentageOfPortfolio.value
GivenPct(a) == a.percentage.value

\* 100 percent and the 0.01 tolerance, in 1/PctScale of a percent
Hundred == 100 * PctScale
Tolerance == PctScale \div 100

Emitted == snapshot.result.aggregatedAssets
Ensured == analysis.result

AggregatorPercentagesSum ==
  (snapshot.called /\ Len(Emitted) > 0 /\ snapshot.result.totalValueUSD > 0) =>
    /\ \A k \in 1..Len(Emitted) : Emitted[k].percentageOfPortfolio.kind = "num"
    /\ Abs(SumOver(PortfolioPct, Emitted, Len(Emitted)) - Hundred) <= Tolerance

EnsuredPercentagesSum ==
  /\ \A i \in 1..Len(Ensured) : Ensured[i].percentage.kind = "num"
  /\ Abs(SumOver(GivenPct, Ensured, Len(Ensured)) - Hundred) <= Tolerance

PositiveAnalysis ==
  /\ analysis.called /\ Len(analysis.input) > 0
  /\ SumValueUSD(analysis.input, Len(analysis.input)) > 0

C10_ZeroTotalZeroPercent ==
  /\ (snapshot.called /\ snapshot.result.totalValueUSD = 0) =>
       \A k \in 1..Len(Emitted) : Emitted[k].percentageOfPortfolio = Num(0)
  /\ (analysis.called /\ SumValueUSD(analysis.input, Len(analysis.input)) = 0) =>
       \A i \in 1..Len(Ensured) : Ensured[i].percentage = Num(0)

C10_Witness ==
  /\ snapshot.called /\ snapshot.result.totalValueUSD = 0
  /\ \E k \in 1..Len(Emitted) : Emitted[k].percentageOfPortfolio.kind = "NaN"

\* ---- aggregation claims: order, sorting, grouping
\* the same readings handed over in every other order
Reorderings(seq) ==
  LET n == Len(seq)
      shuffles == {p \in [1..n -> 1..n] : \A i, j \in 1..n : p[i] = p[j] => i = j}
  IN {[i \in 1..n |-> seq[p[i]]] : p \in shuffles}

\* C11: aggregateBalances returns an equal snapshot (same totals, same
\* aggregated assets in the same order, same chain breakdowns) for every
\* reordering of the asset list it was given.
C11_OrderIndependent ==
  snapshot.called =>
    \A shuffled \in Reorderings(snapshot.input) :
      aggregateBalances(shuffled) = snapshot.result

C11_Witness ==
  /\ snapshot.called /\ Len(snapshot.input) = 2 /\ Len(Emitted) = 2
  /\ Emitted[1].symbol = "USDC" /\ Emitted[2].symbol = "ETH"

\* position of a symbol in the order Array.prototype.sort would give
\* (UTF-16 code units: upper case before lower case)
SymbolRank(symbol) ==
  CASE symbol = "ARB"   -> 1
    [] symbol = "ETH"   -> 2
    [] symbol = "MATIC" -> 3
    [] symbol = "SOL"   -> 4
    [] symbol = "USDC"  -> 5
    [] symbol = "USDT"  -> 6
    [] symbol = "eth"   -> 7

\* C19: the aggregated assets of every emitted snapshot are in ascending
\* order of symbol.
C19_EmittedSortedBySymbol ==
  snapshot.called =>
    \A k \in 1..(Len(Emitted) - 1) :
      SymbolRank(Emitted[k].symbol) <= SymbolRank(Emitted[k + 1].symbol)

C19_Witness ==
  /\ snapshot.called /\ snapshot.input = getMultiChainBalances
  /\ Emitted[2].symbol = "USDC" /\ Emitted[3].symbol = "MATIC"

\* a symbol with its letter case normalised (String.prototype.toUpperCase)
Normalized(symbol) == IF symbol = "eth" THEN "ETH" ELSE symbol

\* C20: readings whose symbols differ only in letter case end up in one
\* aggregated asset, whose totalAmount and totalValueUSD are the sums over
\* those readings and whose chain breakdown names every contributing chain.
C20_GroupsByNormalizedSymbol ==
  snapshot.called =>
    /\ \A j, k \in 1..Len(Emitted) :
         Normalized(Emitted[j].symbol) = Normalized(Emitted[k].symbol) => j = k
    /\ \A k \in 1..Len(Emitted) :
         LET key == Normalized(Emitted[k].symbol)
             AmountIn(r) == IF Normalized(r.symbol) = key THEN r.amount ELSE 0
             ValueIn(r) == IF Normalized(r.symbol) = key THEN r.valueUSD ELSE 0
             input == snapshot.input
         IN /\ Emitted[k].totalAmount = SumOver(AmountIn, input, Len(input))
            /\ Emitted[k].totalValueUSD = SumOver(ValueIn, input, Len(input))
            /\ {Emitted[k].chains[c].chain : c \in 1..Len(Emitted[k].chains)}
                 = {input[i].chain : i \in {h \in 1..Len(input) :
                                             Normalized(input[h].symbol) = key}}

C20_Witness ==
  /\ snapshot.called /\ Len(snapshot.input) = 2
  /\ snapshot.input[1].symbol = "ETH" /\ snapshot.input[2].symbol = "eth"
  /\ Len(Emitted) = 2

\* ---- planner claims
\* the entries of a plan in one shape, whichever planner made it
EntriesOf(planner, result) ==
  IF planner = "simulateRebalancing"
  THEN [k \in 1..Len(result.proposedChanges) |->
          [symbol |-> result.proposedChanges[k].symbol,
           targetValueUSD |-> result.proposedChanges[k].targetValue,
           difference |-> result.proposedChanges[k].difference,
           amountUSD |-> result.proposedChanges[k].amountUSD,
           action |-> result.proposedChanges[k].action]]
  ELSE [k \in 1..Len(result.operations) |->
          [symbol |-> result.operations[k].asset,
           targetValueUSD |-> result.operations[k].targetValue,
           difference |-> result.operations[k].difference,
           amountUSD |-> result.operations[k].amount,
           action |-> IF result.operations[k].action = "buy" THEN "BUY" ELSE "SELL"]]

PlanEntries == EntriesOf(plan.planner, plan.result)

DistinctSymbols(portfolio) ==
  \A i, j \in 1..Len(portfolio) : portfolio[i].symbol = portfolio[j].symbol => i = j

\* what the portfolio holds of a symbol, in cents: 0 when it is absent
HeldValue(portfolio, symbol) ==
  LET ValueIn(a) == IF a.symbol = symbol THEN Cents(a.valueUSD) ELSE 0
  IN SumOver(ValueIn, portfolio, Len(portfolio))

Holds(portfolio, symbol) == \E i \in 1..Len(portfolio) : portfolio[i].symbol = symbol

\* targetPercent/100 x portfolio total - current value, in cents
ClaimedDifference(portfolio, target) ==
  target.targetPercentage * SumValueUSD(portfolio, Len(portfolio))
    - HeldValue(portfolio, target.symbol)

\* the fixed absolute threshold of 10 USD
ClaimedAction(difference) ==
  IF difference > Cents(10) THEN "BUY"
  ELSE IF difference < -Cents(10) THEN "SELL" ELSE "HOLD"

\* the portfolios the claims speak of: one position per symbol (the chain
\* readings handed to rebalanceAcrossChains are aggregated into such
\* positions before planning)
PlannedOverPositions ==
  /\ plan.called
  /\ plan.planner = "rebalanceAcrossChains" \/ DistinctSymbols(plan.portfolio)

\* C12: for each target symbol the plan has an entry with targetValueUSD =
\* targetPercent/100 x total, difference = targetValueUSD - current value (0
\* when absent), amountUSD = |difference| and action BUY above +10 USD, SELL
\* below -10 USD, HOLD otherwise.
C12_PlanEntryPerTarget ==
  PlannedOverPositions =>
    \A i \in 1..Len(plan.targets) :
      \E k \in 1..Len(PlanEntries) :
        LET d == ClaimedDifference(plan.portfolio, plan.targets[i]) IN
        /\ PlanEntries[k].symbol = plan.targets[i].symbol
        /\ PlanEntries[k].targetValueUSD =
             plan.targets[i].targetPercentage
               * SumValueUSD(plan.portfolio, Len(plan.portfolio))
        /\ PlanEntries[k].difference = d
        /\ PlanEntries[k].amountUSD = Abs(d)
        /\ PlanEntries[k].action = ClaimedAction(d)

C12_Witness ==
  /\ plan.called /\ plan.planner = "rebalanceAcrossChains"
  /\ Len(plan.targets) = 2 /\ Len(PlanEntries) = 1

\* C13: a target symbol absent from the portfolio gets an entry in the plan,
\* and that entry is a HOLD or moves nothing.
C13_AbsentSymbolHeld ==
  PlannedOverPositions =>
    \A i \in 1..Len(plan.targets) :
      ~Holds(plan.portfolio, plan.targets[i].symbol) =>
        \E k \in 1..Len(PlanEntries) :
          /\ PlanEntries[k].symbol = plan.targets[i].symbol
          /\ PlanEntries[k].action = "HOLD" \/ PlanEntries[k].amountUSD = 0

C13_Witness ==
  /\ plan.called /\ plan.planner = "simulateRebalancing"
  /\ \E i \in 1..Len(plan.targets) :
       /\ plan.targets[i].symbol = "DAI"
       /\ \E k \in 1..Len(PlanEntries) :
            PlanEntries[k].symbol = "DAI" /\ PlanEntries[k].action = "BUY"

PlannerInputs(planner) ==
  IF planner = "simulateRebalancing"
  THEN {q \in SeqsUpTo(PlanHoldings, MaxHoldings) : DistinctSymbols(q)}
  ELSE SeqsUpTo(PlanReadings, MaxHoldings)

PlannerResult(planner, portfolio, targets) ==
  IF planner = "simulateRebalancing"
  THEN simulateRebalancing(portfolio, targets)
  ELSE rebalanceAcrossChains(portfolio, targets)

\* the action a set of entries gives a symbol: HOLD when it has no entry
ActionIn(entries, symbol) ==
  IF \E k \in 1..Len(entries) : entries[k].symbol = symbol
  THEN (entries[CHOOSE k \in 1..Len(entries) : entries[k].symbol = symbol]).action
  ELSE "HOLD"

SameSign(d, e) == (d > 0 /\ e > 0) \/ (d < 0 /\ e < 0)

\* C14: when a planner answers BUY (SELL) for a difference d, the same
\* planner answers BUY (SELL) for every difference of the same sign that is
\* at least as large, whatever portfolio and target produce it.
C14_ActionMonotonicInDifference ==
  PlannedOverPositions =>
    \A i \in 1..Len(plan.targets) :
      LET d == ClaimedDifference(plan.portfolio, plan.targets[i])
          a == ActionIn(PlanEntries, plan.targets[i].symbol)
      IN a \in {"BUY", "SELL"} =>
           \A q \in PlannerInputs(plan.planner), t \in TargetEntries :
             LET e == ClaimedDifference(q, t) IN
             (SameSign(d, e) /\ Abs(e) >= Abs(d)) =>
               ActionIn(EntriesOf(plan.planner,
                                  PlannerResult(plan.planner, q, <<t>>)),
                        t.symbol) = a

C14_Witness ==
  /\ plan.called /\ plan.planner = "rebalanceAcrossChains"
  /\ SumValueUSD(plan.portfolio, Len(plan.portfolio)) = 20
  /\ \E k \in 1..Len(PlanEntries) :
       PlanEntries[k].action = "BUY" /\ PlanEntries[k].difference = Cents(10)

\* ---- bridge fee claim
OrchestratorOps ==
  {i \in Calls : bridgeCalls[i].impl = "orchestrator" /\ ReturnedCall(i)}
ServiceOps ==
  {i \in Calls : bridgeCalls[i].impl = "service" /\ ReturnedCall(i)}

Degraded == {"cached", "fallback"}

\* C16: a failing gas price source never makes getGasOptimization throw, and
\* in what the call returns every chain whose source failed carries the
\* last-known-good cached value or the static fallback value.
C16_SourceFailureDegrades ==
  /\ gasPhase # "threw"
  /\ gasPhase = "returned" =>
       /\ \A c \in ServiceChains :
            marketGas[c].source # "ok" => marketGas[c].value \in Degraded
       /\ \A c \in providers :
            onChainGas[c].source # "ok" => onChainGas[c].value \in Degraded

C16_Witness ==
  /\ gasPhase = "returned"
  /\ marketGas["ethereum"].source = "err" /\ marketGas["ethereum"].value = "fallback"
  /\ \E c \in providers : onChainGas[c].source = "err" /\ onChainGas[c].value = "null"

\* ---- status query claim
PolledAs(i, statuses) ==
  polled.made /\ polled.call = i /\ polled.answer \in statuses

\* C18: a status query answers with the status the operation has at that
\* moment, and a caller polling an operation that initiateBridge returned
\* gets to see it in-progress and gets to see it completed or failed.
C18_PollingObservesLifecycle ==
  /\ [][polled' # polled =>
          polled'.answer = bridgeCalls[polled'.call].status]_vars
  /\ \A i \in 1..MaxCalls :
       /\ ReturnedCall(i) ~> PolledAs(i, {"in-progress", "completed", "failed"})
       /\ ReturnedCall(i) ~> PolledAs(i, {"completed", "failed"})

C18_Witness ==
  \E i \in Calls :
    /\ bridgeCalls[i].impl = "orchestrator" /\ StatusOf(i) = "completed"
    /\ PolledAs(i, {"pending"})

C25_AlertsExactlyWhen ==
  scoring.called /\ scoring.scorer = "TreasuryAgent" =>
    /\ "critical" \in scoring.alerts
         <=> \E i \in 1..Len(scoring.assets) :
               PctOrZero(scoring.assets[i]) > Points(70)
    /\ "small-positions" \in scoring.alerts
         <=> Cardinality({i \in 1..Len(scoring.assets) :
                            PctOrZero(scoring.assets[i]) < Points(5)}) > 3

\* ---- chain selection claim
\* the chains that hold the largest score of a column of chainScores
BestChains(column) ==
  {c \in DOMAIN chainScores :
     \A d \in DOMAIN chainScores : chainScores[d][column] <= chainScores[c][column]}

\* C24: recommendedChain is a function of (asset, action): the chain with the
\* highest liquidity score on a buy, the chain with the highest fee-efficiency
\* score on a sell.
C24_RecommendedChainByScore ==
  plan.called /\ plan.planner = "rebalanceAcrossChains" =>
    \A k \in 1..Len(plan.result.operations) :
      LET op == plan.result.operations[k]
      IN /\ op.recommendedChain = selectOptimalChain(op.asset, op.action)
         /\ op.action = "buy" => op.recommendedChain \in BestChains("liquidity")
         /\ op.action = "sell" => op.recommendedChain \in BestChains("fees")

\* ---- bridge time claim
\* the slow chain: the one both estimators test first and answer with their
\* longest estimate
SlowChains == {"ethereum"}

\* how many legs of call i touch a slow chain
SlowLegs(i) ==
  (IF bridgeCalls[i].fromChain \in SlowChains THEN 1 ELSE 0)
    + (IF bridgeCalls[i].toChain \in SlowChains THEN 1 ELSE 0)

Answered == served.route # "none"

C23_InvalidRejectedFirst ==
  [][served' # served /\ served'.route = "/api/cross-chain-bridge"
       /\ ~served'.valid
     => /\ ~served'.invoked
        /\ served'.response = sendValidationError
        /\ UNCHANGED <<coreVars, scoreVars, batchVars, dashVars, cache, now>>]_vars

C23_Witness ==
  /\ served.route = "/api/cross-chain-bridge"
  /\ ~served.valid
  /\ served.response.status = 400
  /\ Len(bridgeCalls) = 1

\* ---- cache claim
\* a step that answers a GET of a cached route
CachedAnswer(url) == served' # served /\ served'.route = url

\* C29: a cached route is answered from the cache only if the URL's entry was
\* stored less than its TTL ago; otherwise the handler runs and the body it
\* sends becomes the URL's entry; the cleanup job deletes only entries older
\* than their TTL.
C29_CacheServesFreshOnly ==
  [][/\ \A url \in CachedUrls :
          CachedAnswer(url) =>
            IF served'.fromCache
            THEN /\ cache[url].present
                 /\ now - cache[url].timestamp < cache[url].ttl
                 /\ served'.response.body = cache[url].data
                 /\ ~served'.invoked
                 /\ cache' = cache
            ELSE /\ served'.invoked
                 /\ cache'[url].present
                 /\ cache'[url].data = served'.response.body
                 /\ cache'[url].timestamp = now
                 /\ cache'[url].ttl = TtlOf(url)
                 /\ \A other \in CachedUrls \ {url} : cache'[other] = cache[other]
     /\ served' = served =>
          \A url \in CachedUrls :
            cache'[url] # cache[url] =>
              /\ cache[url].present /\ ~cache'[url].present
              /\ now' - cache[url].timestamp > cache[url].ttl]_vars

\* an entry past its TTL has been replaced by a run of the handler, and
\* another entry has been deleted by the cleanup job
C29_Witness ==
  /\ served.route = "/api/gas-optimization" /\ ~served.fromCache
  /\ cache["/api/gas-optimization"].timestamp = now
  /\ now > CleanupInterval
  /\ ~cache["/api/correlation-analysis"].present

\* ---- BatchProcessor claims
Running == {id \in OpIds : ops[id].state = "running"}

\* C27: no two batches are in flight at once, at most batchSize operations
\* are executing, and no operation is started twice.
C27_OneBatchAtATime ==
  /\ inFlight <= 1
  /\ Cardinality(Running) <= batchSize
  /\ \A id \in OpIds : ops[id].starts <= 1
  /\ Running # {} => processing

C27_Witness ==
  /\ Cardinality(Running) = batchSize
  /\ Len(queue) > 0
  /\ \E id \in OpIds : ops[id].state = "done"

\* the promise add returned for id has settled with the operation's outcome
SettledAsOutcome(id) ==
  \/ ops[id].outcome = "ok" /\ ops[id].promise = "resolved"
  \/ ops[id].outcome = "err" /\ ops[id].promise = "rejected"

\* C28: every operation passed to add is eventually started and its promise
\* settles with the operation's outcome, also when it was added while a batch
\* was in flight.
C28_EveryAddSettles ==
  \A id \in OpIds :
    (ops[id].state # "new") ~> (ops[id].starts = 1 /\ SettledAsOutcome(id))

\* an operation that waited for a batch in flight and was started by the
\* timer has rejected its promise
C28_Witness ==
  \E id \in OpIds :
    /\ ops[id].by = "timer"
    /\ ops[id].outcome = "err" /\ ops[id].promise = "rejected"

\* ---- dashboard claim
Started == {r \in RunIds : runs[r] # "idle"}

\* the run that was started last
LastStarted == CHOOSE r \in Started : \A other \in Started : other <= r

\* C30: once every run that was started has finished, the hook still being
\* mounted, `data` holds the results of the run that was started last.
C30_LastStartedRunWins ==
  /\ isMounted
  /\ Cardinality(Started) >= 2
  /\ \A r \in Started : runs[r] = "done"
  => data = LastStarted

====
